---- MODULE Spec2Model ----
(***************************************************************************)
(* TrustLink core: the Block entity of chain/internal/core/block.go, its   *)
(* two constructors NewBlock and NewGenesisBlock, and the fingerprint      *)
(* derivation Block.CalculateHash.                                         *)
(*                                                                         *)
(* Text is modelled as a sequence of characters, each character a string   *)
(* naming it: a printable ASCII character names itself, "xFE" and "xFF"    *)
(* are the single bytes 0xFE and 0xFF (not valid UTF-8), "U+043D" is the   *)
(* Cyrillic code point of that number.                                     *)
(***************************************************************************)
EXTENDS Integers, Sequences, FiniteSets, Bags, TLC

VARIABLES heap, callArgs, returned, pc, blk, callerData, now, result

vars == <<heap, callArgs, returned, pc, blk, callerData, now, result>>

(***************************************************************************)
(* Bounds of the model.                                                    *)
(***************************************************************************)
NumProcs == 2
MaxBlocks == 2

Procs == 1..NumProcs

(***************************************************************************)
(* fmt.Sprintf("%d", n): decimal text of an integer.                       *)
(***************************************************************************)
Digits == <<"0", "1", "2", "3", "4", "5", "6", "7", "8", "9">>

RECURSIVE DecNat(_)
DecNat(n) ==
    IF n < 10 THEN <<Digits[n + 1]>>
    ELSE DecNat(n \div 10) \o <<Digits[(n % 10) + 1]>>

Dec(n) == IF n < 0 THEN <<"-">> \o DecNat(-n) ELSE DecNat(n)

(***************************************************************************)
(* float64 RatingChange.  A finite value is a whole number of units of     *)
(* 1/FloatScale; NaN, +Inf and -Inf are the values json.Marshal rejects.   *)
(***************************************************************************)
FloatScale == 10000

Finite(u) == [cls |-> "finite", units |-> u]
NaN == [cls |-> "NaN", units |-> 0]
PosInf == [cls |-> "+Inf", units |-> 0]
NegInf == [cls |-> "-Inf", units |-> 0]

\* Fraction digits of f/FloatScale at the given place value, trailing zeros cut.
RECURSIVE FracDigits(_, _)
FracDigits(f, place) ==
    IF f = 0 THEN <<>>
    ELSE <<Digits[(f \div place) + 1]>> \o FracDigits(f % place, place \div 10)

\* encoding/json floatEncoder for a finite value in the 'f' range:
\* the shortest decimal that reads back as the same value.
FormatFloat(x) ==
    LET a == IF x.units < 0 THEN -x.units ELSE x.units
        sign == IF x.units < 0 THEN <<"-">> ELSE <<>>
        whole == DecNat(a \div FloatScale)
        frac == FracDigits(a % FloatScale, FloatScale \div 10)
    IN  sign \o whole \o (IF frac = <<>> THEN <<>> ELSE <<".">> \o frac)

(***************************************************************************)
(* encoding/json string encoding (escapeHTML on, as json.Marshal sets it). *)
(***************************************************************************)
InvalidBytes == {"xFE", "xFF"}

EscapeChar(c) ==
    CASE c = "\"" -> <<"\\", "\"">>
      [] c = "\\" -> <<"\\", "\\">>
      [] c = "<"  -> <<"\\", "u", "0", "0", "3", "c">>
      [] c \in InvalidBytes -> <<"\\", "u", "f", "f", "f", "d">>
      [] OTHER -> <<c>>

\* The escapes of the characters of s, in order (halving keeps the
\* evaluation shallow).
RECURSIVE EscapeString(_)
EscapeString(s) ==
    IF s = <<>> THEN <<>>
    ELSE IF Len(s) = 1 THEN EscapeChar(s[1])
    ELSE LET mid == Len(s) \div 2
         IN  EscapeString(SubSeq(s, 1, mid))
             \o EscapeString(SubSeq(s, mid + 1, Len(s)))

JsonString(s) == <<"\"">> \o EscapeString(s) \o <<"\"">>

\* "name": of one struct field, from its json tag.
JsonKey(name) == <<"\"">> \o name \o <<"\"", ":">>

TagINN == <<"i", "n", "n">>
TagCompanyName == <<"c", "o", "m", "p", "a", "n", "y", "_", "n", "a", "m", "e">>
TagAction == <<"a", "c", "t", "i", "o", "n">>
TagRatingChange ==
    <<"r", "a", "t", "i", "n", "g", "_", "c", "h", "a", "n", "g", "e">>
TagDetails == <<"d", "e", "t", "a", "i", "l", "s">>

\* json.Marshal(b.Data): the error result.
MarshalFails(d) == d.RatingChange.cls # "finite"

\* JsonMarshal returning, when it fails, what the encoder had written up to
\* the value it rejects instead of nil.
JsonMarshalPartial(d) ==
    <<"{">>
    \o JsonKey(TagINN) \o JsonString(d.INN) \o <<",">>
    \o JsonKey(TagCompanyName) \o JsonString(d.CompanyName) \o <<",">>
    \o JsonKey(TagAction) \o JsonString(d.Action) \o <<",">>
    \o JsonKey(TagRatingChange)
    \o (IF MarshalFails(d) THEN <<>>
        ELSE FormatFloat(d.RatingChange) \o <<",">>
             \o JsonKey(TagDetails) \o JsonString(d.Details) \o <<"}">>)

\* json.Marshal(b.Data): the bytes result; nil when it fails.
JsonMarshal(d) ==
    IF MarshalFails(d) THEN <<>>
    ELSE <<"{">>
         \o JsonKey(TagINN) \o JsonString(d.INN) \o <<",">>
         \o JsonKey(TagCompanyName) \o JsonString(d.CompanyName) \o <<",">>
         \o JsonKey(TagAction) \o JsonString(d.Action) \o <<",">>
         \o JsonKey(TagRatingChange) \o FormatFloat(d.RatingChange) \o <<",">>
         \o JsonKey(TagDetails) \o JsonString(d.Details)
         \o <<"}">>

(***************************************************************************)
(* []byte(record): the bytes of a text.  ASCII characters are one byte,    *)
(* the Cyrillic letters of the genesis marker two (UTF-8), "xFE" and "xFF" *)
(* the raw byte.                                                           *)
(***************************************************************************)
AsciiCode ==
    (" " :> 32) @@ ("!" :> 33) @@ ("\"" :> 34) @@ ("#" :> 35) @@ ("$" :> 36)
    @@ ("%" :> 37) @@ ("&" :> 38) @@ ("'" :> 39) @@ ("(" :> 40) @@ (")" :> 41)
    @@ ("*" :> 42) @@ ("+" :> 43) @@ ("," :> 44) @@ ("-" :> 45) @@ ("." :> 46)
    @@ ("/" :> 47) @@ ("0" :> 48) @@ ("1" :> 49) @@ ("2" :> 50) @@ ("3" :> 51)
    @@ ("4" :> 52) @@ ("5" :> 53) @@ ("6" :> 54) @@ ("7" :> 55) @@ ("8" :> 56)
    @@ ("9" :> 57) @@ (":" :> 58) @@ (";" :> 59) @@ ("<" :> 60) @@ ("=" :> 61)
    @@ (">" :> 62) @@ ("?" :> 63) @@ ("@" :> 64) @@ ("A" :> 65) @@ ("B" :> 66)
    @@ ("C" :> 67) @@ ("D" :> 68) @@ ("E" :> 69) @@ ("F" :> 70) @@ ("G" :> 71)
    @@ ("H" :> 72) @@ ("I" :> 73) @@ ("J" :> 74) @@ ("K" :> 75) @@ ("L" :> 76)
    @@ ("M" :> 77) @@ ("N" :> 78) @@ ("O" :> 79) @@ ("P" :> 80) @@ ("Q" :> 81)
    @@ ("R" :> 82) @@ ("S" :> 83) @@ ("T" :> 84) @@ ("U" :> 85) @@ ("V" :> 86)
    @@ ("W" :> 87) @@ ("X" :> 88) @@ ("Y" :> 89) @@ ("Z" :> 90) @@ ("[" :> 91)
    @@ ("\\" :> 92) @@ ("]" :> 93) @@ ("^" :> 94) @@ ("_" :> 95) @@ ("U+0060" :> 96)
    @@ ("a" :> 97) @@ ("b" :> 98) @@ ("c" :> 99) @@ ("d" :> 100) @@ ("e" :> 101)
    @@ ("f" :> 102) @@ ("g" :> 103) @@ ("h" :> 104) @@ ("i" :> 105) @@ ("j" :> 106)
    @@ ("k" :> 107) @@ ("l" :> 108) @@ ("m" :> 109) @@ ("n" :> 110) @@ ("o" :> 111)
    @@ ("p" :> 112) @@ ("q" :> 113) @@ ("r" :> 114) @@ ("s" :> 115) @@ ("t" :> 116)
    @@ ("u" :> 117) @@ ("v" :> 118) @@ ("w" :> 119) @@ ("x" :> 120) @@ ("y" :> 121)
    @@ ("z" :> 122) @@ ("{" :> 123) @@ ("|" :> 124) @@ ("}" :> 125) @@ ("~" :> 126)

CodePoint ==
    ("U+0430" :> 1072) @@ ("U+0435" :> 1077) @@ ("U+0438" :> 1080)
    @@ ("U+043A" :> 1082) @@ ("U+043B" :> 1083) @@ ("U+043D" :> 1085)
    @@ ("U+043E" :> 1086) @@ ("U+043F" :> 1087) @@ ("U+0446" :> 1094)
    @@ ("U+0447" :> 1095)

RawByte == ("xFE" :> 254) @@ ("xFF" :> 255)

Utf8TwoBytes(cp) == <<192 + (cp \div 64), 128 + (cp % 64)>>

\* The bytes of every character of the model.
CharTable ==
    [c \in DOMAIN AsciiCode |-> <<AsciiCode[c]>>]
    @@ [c \in DOMAIN CodePoint |-> Utf8TwoBytes(CodePoint[c])]
    @@ [c \in DOMAIN RawByte |-> <<RawByte[c]>>]

CharBytes(c) == CharTable[c]

\* The bytes of s[lo..hi], character by character.
RECURSIVE BytesRange(_, _, _)
BytesRange(s, lo, hi) ==
    IF lo > hi THEN <<>> ELSE BytesRange(s, lo, hi - 1) \o CharBytes(s[hi])

\* The bytes of the first n characters of s, a chunk at a time (chunking
\* keeps the evaluation shallow).
Chunk == 32

RECURSIVE BytesUpTo(_, _)
BytesUpTo(s, n) ==
    IF n <= Chunk THEN BytesRange(s, 1, n)
    ELSE BytesUpTo(s, n - Chunk) \o BytesRange(s, n - Chunk + 1, n)

Bytes(s) == BytesUpTo(s, Len(s))

(***************************************************************************)
(* crypto/sha256, as a stand-in digest: 32 bytes out for any input; four   *)
(* 15-bit lanes, each a polynomial in the input bytes over its own prime   *)
(* field, whose bits are spread over the 32 bytes.  It is not SHA-256;     *)
(* DigestCollisionFree below states the one property of SHA-256 the        *)
(* fingerprint contract relies on, over the inputs of the model.           *)
(***************************************************************************)
DigestSize == 32

LaneBase == <<257, 263, 269, 271>>
LaneMod == <<32749, 32719, 32717, 32713>>

\* c to the power e, modulo m, by repeated squaring.
RECURSIVE PowMod(_, _, _)
PowMod(c, e, m) ==
    IF e = 0 THEN 1
    ELSE LET h == PowMod(c, e \div 2, m)
         IN  IF e % 2 = 0 THEN (h * h) % m ELSE (((h * h) % m) * c) % m

\* The longest record the digest takes.
MaxRecordBytes == 512

\* LaneWeights[k][i] is LaneBase[k] to the power i modulo LaneMod[k].
WeightsOf(k) ==
    SubSeq([i \in 1..MaxRecordBytes |-> PowMod(LaneBase[k], i, LaneMod[k])],
           1, MaxRecordBytes)

LaneWeights == <<WeightsOf(1), WeightsOf(2), WeightsOf(3), WeightsOf(4)>>

\* Lane k of bs: the sum over the positions i of (bs[i] + 1) times the
\* weight of i in that lane (a bag's cardinality is the sum of its counts).
LaneOf(bs, k) ==
    (BagCardinality([i \in 1..Len(bs) |-> (bs[i] + 1) * LaneWeights[k][i]])
     + Len(bs)) % LaneMod[k]

Lanes(bs) == <<LaneOf(bs, 1), LaneOf(bs, 2), LaneOf(bs, 3), LaneOf(bs, 4)>>

Pow2 == <<1, 2, 4, 8, 16, 32, 64, 128>>

\* The 32 bytes four lanes spread to, 8 bytes a lane.
Spread(lanes) ==
    [j \in 1..DigestSize |->
        (lanes[((j - 1) % 4) + 1] \div Pow2[((j - 1) \div 4) + 1]) % 256]

\* h.Write([]byte(record)); h.Sum(nil)
Sha256(bs) == CHOOSE d \in {Spread(l) : l \in {Lanes(b) : b \in {bs}}} : TRUE

\* hex.EncodeToString: two lowercase hex characters per byte.
HexDigits ==
    <<"0", "1", "2", "3", "4", "5", "6", "7", "8", "9",
      "a", "b", "c", "d", "e", "f">>

\* HexEncode with the upper-case digits of fmt's %X.
UpperHexDigits ==
    <<"0", "1", "2", "3", "4", "5", "6", "7", "8", "9",
      "A", "B", "C", "D", "E", "F">>

HexEncodeUpper(bs) ==
    [i \in 1..(2 * Len(bs)) |->
        LET b == bs[(i + 1) \div 2]
        IN  IF i % 2 = 1 THEN UpperHexDigits[(b \div 16) + 1]
            ELSE UpperHexDigits[(b % 16) + 1]]

HexEncode(bs) ==
    [i \in 1..(2 * Len(bs)) |->
        LET b == bs[(i + 1) \div 2]
        IN  IF i % 2 = 1 THEN HexDigits[(b \div 16) + 1]
            ELSE HexDigits[(b % 16) + 1]]

(***************************************************************************)
(* type SupplierData, type Block.                                          *)
(***************************************************************************)
SupplierData(inn, name, action, rating, details) ==
    [INN |-> inn, CompanyName |-> name, Action |-> action,
     RatingChange |-> rating, Details |-> details]

Block(index, timestamp, data, prevHash, hash, nonce) ==
    [Index |-> index, Timestamp |-> timestamp, Data |-> data,
     PrevHash |-> prevHash, Hash |-> hash, Nonce |-> nonce]

(***************************************************************************)
(* func (b *Block) CalculateHash() string                                  *)
(***************************************************************************)
\* fmt.Sprintf("%d%d%s%s%d", ...): the arguments' texts, nothing between.
Sprintf(index, timestamp, dataText, prevHash, nonce) ==
    Dec(index) \o Dec(timestamp) \o dataText \o prevHash \o Dec(nonce)

Record(b) == Sprintf(b.Index, b.Timestamp, JsonMarshal(b.Data), b.PrevHash, b.Nonce)

\* CalculateHash with the stored Hash among the fields it formats.
CalculateHashWithStored(b) ==
    HexEncode(Sha256(Bytes(Record(b) \o b.Hash)))

CalculateHash(b) == HexEncode(Sha256(Bytes(Record(b))))

(***************************************************************************)
(* Inputs of the model.                                                    *)
(***************************************************************************)
\* Readings of the system clock, time.Now().Unix().
ClockReadings == {3, 23}

\* The index arguments callers pass.
Indexes == {1, 12}

\* The predecessor references callers pass besides real fingerprints:
\* the empty string and a string that is not hexadecimal.
PlainPrevHashes == {<<>>, <<"z">>}

PayloadX == SupplierData(<<"7">>, <<"A">>, <<"R">>, Finite(-5000), <<>>)
PayloadBad == SupplierData(<<"7">>, <<"A">>, <<"R">>, NaN, <<>>)

\* The values a caller's SupplierData variable takes.
Payloads == {PayloadX, PayloadBad}

NoResult == [block |-> 0, hash |-> <<>>]

(***************************************************************************)
(* The callers' state and the blocks they have allocated.                  *)
(*   heap[a]       the Block at address a                                  *)
(*   callArgs[a]   the constructor call that allocated it: the arguments   *)
(*                 as passed and the clock reading it took                 *)
(*   returned      the addresses a constructor has returned to its caller  *)
(*   pc[p], blk[p] where caller p is, and its local `block`                *)
(*   callerData[p] caller p's own SupplierData variable                    *)
(*   now           the system clock                                        *)
(*   result        what the last direct CalculateHash call returned, and   *)
(*                 on which block                                          *)
(***************************************************************************)
Init ==
    /\ heap = <<>>
    /\ callArgs = <<>>
    /\ returned = {}
    /\ pc = [p \in Procs |-> "idle"]
    /\ blk = [p \in Procs |-> 0]
    /\ callerData = [p \in Procs |-> PayloadX]
    /\ now \in ClockReadings
    /\ result = NoResult

InFlight == {p \in Procs : pc[p] # "idle"}

\* The system clock moves to another reading.
Tick ==
    /\ \E t \in ClockReadings \ {now} : now' = t
    /\ UNCHANGED <<heap, callArgs, returned, pc, blk, callerData, result>>

\* A caller assigns its own SupplierData variable.
SetCallerData(p) ==
    /\ \E d \in Payloads \ {callerData[p]} :
           callerData' = [callerData EXCEPT ![p] = d]
    /\ UNCHANGED <<heap, callArgs, returned, pc, blk, now, result>>

\* NewBlockEnter with a validation step: an empty predecessor reference is
\* replaced by the genesis sentinel "0".
NewBlockEnterNormalising(p, ctor, data, prevHash, index) ==
    /\ pc[p] = "idle"
    /\ Len(heap) < MaxBlocks
    /\ heap' = Append(heap,
           Block(index, now, data,
                 IF prevHash = <<>> THEN <<"0">> ELSE prevHash, <<>>, 0))
    /\ callArgs' = Append(callArgs,
           [ctor |-> ctor, data |-> data, prevHash |-> prevHash,
            index |-> index, clock |-> now])
    /\ blk' = [blk EXCEPT ![p] = Len(heap) + 1]
    /\ pc' = [pc EXCEPT ![p] = "hash"]
    /\ UNCHANGED <<returned, callerData, now, result>>

\* NewBlock, lines 33-40: the arguments arrive by value, the clock is read
\* and the block is allocated with no Hash yet.
NewBlockEnter(p, ctor, data, prevHash, index) ==
    /\ pc[p] = "idle"
    /\ Len(heap) < MaxBlocks
    /\ heap' = Append(heap, Block(index, now, data, prevHash, <<>>, 0))
    /\ callArgs' = Append(callArgs,
           [ctor |-> ctor, data |-> data, prevHash |-> prevHash,
            index |-> index, clock |-> now])
    /\ blk' = [blk EXCEPT ![p] = Len(heap) + 1]
    /\ pc' = [pc EXCEPT ![p] = "hash"]
    /\ UNCHANGED <<returned, callerData, now, result>>

\* NewBlockFinish with line 43 left out: the block is returned as allocated.
NewBlockFinishStale(p) ==
    /\ pc[p] = "hash"
    /\ returned' = returned \cup {blk[p]}
    /\ pc' = [pc EXCEPT ![p] = "idle"]
    /\ blk' = [blk EXCEPT ![p] = 0]
    /\ UNCHANGED <<heap, callArgs, callerData, now, result>>

\* NewBlockFinish with `block` a package-level variable instead of a local:
\* line 43 stores into the block allocated last, whoever allocated it.
NewBlockFinishShared(p) ==
    /\ pc[p] = "hash"
    /\ heap' = [heap EXCEPT ![Len(heap)].Hash = CalculateHash(heap[Len(heap)])]
    /\ returned' = returned \cup {blk[p]}
    /\ pc' = [pc EXCEPT ![p] = "idle"]
    /\ blk' = [blk EXCEPT ![p] = 0]
    /\ UNCHANGED <<callArgs, callerData, now, result>>

\* NewBlock, lines 43-44: the fingerprint is stored and the block returned.
NewBlockFinish(p) ==
    /\ pc[p] = "hash"
    /\ heap' = [heap EXCEPT ![blk[p]].Hash = CalculateHash(heap[blk[p]])]
    /\ returned' = returned \cup {blk[p]}
    /\ pc' = [pc EXCEPT ![p] = "idle"]
    /\ blk' = [blk EXCEPT ![p] = 0]
    /\ UNCHANGED <<callArgs, callerData, now, result>>

\* The fingerprints a caller can hold: those of the blocks returned so far.
KnownHashes == {heap[a].Hash : a \in returned}

\* A caller calls NewBlock with its SupplierData variable.
CallNewBlock(p) ==
    \E prevHash \in PlainPrevHashes \cup KnownHashes, index \in Indexes :
        NewBlockEnter(p, "NewBlock", callerData[p], prevHash, index)

GenesisData ==
    SupplierData(
        <<"0", "0", "0", "0", "0", "0", "0", "0", "0", "0">>,
        <<"S", "y", "s", "t", "e", "m", " ", "G", "e", "n", "e", "s", "i", "s">>,
        <<"I", "N", "I", "T">>,
        Finite(0),
        <<"G", "e", "n", "e", "s", "i", "s", " ", "B", "l", "o", "c", "k", " ",
          "-", " ", "U+043D", "U+0430", "U+0447", "U+0430", "U+043B", "U+043E",
          " ", "U+0446", "U+0435", "U+043F", "U+043E", "U+0447", "U+043A",
          "U+0438">>)

\* NewGenesisBlock passing the caller's payload instead of the fixed one.
NewGenesisBlockCallerData(p) ==
    NewBlockEnter(p, "NewGenesisBlock", callerData[p], <<"0">>, 0)

\* A caller calls NewGenesisBlock, which calls NewBlock.
NewGenesisBlock(p) ==
    NewBlockEnter(p, "NewGenesisBlock", GenesisData, <<"0">>, 0)

\* A caller calls CalculateHash on a block it was given.
CallCalculateHash(p, a) ==
    /\ pc[p] = "idle"
    /\ a \in returned
    /\ result' = [block |-> a, hash |-> CalculateHash(heap[a])]
    /\ UNCHANGED <<heap, callArgs, returned, pc, blk, callerData, now>>

Next ==
    \/ Tick
    \/ \E p \in Procs : SetCallerData(p)
    \/ \E p \in Procs : CallNewBlock(p)
    \/ \E p \in Procs : NewGenesisBlock(p)
    \/ \E p \in Procs : NewBlockFinish(p)
    \/ \E p \in Procs, a \in 1..MaxBlocks : CallCalculateHash(p, a)

Spec == Init /\ [][Next]_vars

(***************************************************************************)
(* Properties of the constructors.                                         *)
(***************************************************************************)
Allocated == 1..Len(heap)

Genesis == {a \in returned : callArgs[a].ctor = "NewGenesisBlock"}
Standard == {a \in returned : callArgs[a].ctor = "NewBlock"}

\* The five hashed fields of a block.
Tuple(b) == <<b.Index, b.Timestamp, b.Data, b.PrevHash, b.Nonce>>

TypeOK ==
    /\ Len(callArgs) = Len(heap)
    /\ Len(heap) <= MaxBlocks
    /\ returned \subseteq Allocated
    /\ \A p \in Procs : pc[p] \in {"idle", "hash"}
    /\ \A p \in Procs : (pc[p] = "hash") <=> (blk[p] \in Allocated \ returned)
    /\ \A p, q \in Procs : p # q /\ pc[p] = "hash" => blk[p] # blk[q]
    /\ now \in ClockReadings
    /\ result.block \in returned \cup {0}

\* C1: every block a constructor has returned carries a fingerprint that is
\* not empty and equals CalculateHash() of that block.
C1_ReturnedHashIsFresh ==
    \A a \in returned :
        /\ heap[a].Hash # <<>>
        /\ heap[a].Hash = CalculateHash(heap[a])

\* C1 witness: a genesis block and a standard block built at another clock
\* reading have both been returned.
C1_Witness ==
    \E g \in Genesis, b \in Standard : heap[g].Timestamp # heap[b].Timestamp

\* What the genesis payload is said to be; Details only said to be fixed.
GenesisINN == <<"0", "0", "0", "0", "0", "0", "0", "0", "0", "0">>
GenesisName ==
    <<"S", "y", "s", "t", "e", "m", " ", "G", "e", "n", "e", "s", "i", "s">>
GenesisAction == <<"I", "N", "I", "T">>

\* C4: every genesis block has Index 0, PrevHash "0", Nonce 0, the fixed
\* payload and the clock reading taken in the call, its Hash is CalculateHash
\* over exactly those values, and two genesis blocks differ at most in
\* Timestamp and Hash.
C4_GenesisShape ==
    /\ \A g \in Genesis :
          /\ heap[g].Index = 0
          /\ heap[g].PrevHash = <<"0">>
          /\ heap[g].Nonce = 0
          /\ heap[g].Data.INN = GenesisINN
          /\ heap[g].Data.CompanyName = GenesisName
          /\ heap[g].Data.Action = GenesisAction
          /\ heap[g].Data.RatingChange = Finite(0)
          /\ heap[g].Data.Details # <<>>
          /\ heap[g].Timestamp = callArgs[g].clock
          /\ heap[g].Hash =
                CalculateHash(
                    Block(0, callArgs[g].clock,
                          SupplierData(GenesisINN, GenesisName, GenesisAction,
                                       Finite(0), heap[g].Data.Details),
                          <<"0">>, <<>>, 0))
    /\ \A g, h \in Genesis :
          /\ heap[g].Data = heap[h].Data
          /\ [heap[g] EXCEPT !.Timestamp = 0, !.Hash = <<>>]
                = [heap[h] EXCEPT !.Timestamp = 0, !.Hash = <<>>]
          /\ heap[g].Timestamp = heap[h].Timestamp => heap[g].Hash = heap[h].Hash

\* C4 witness: two genesis blocks taken at different clock readings.
C4_Witness ==
    \E g, h \in Genesis :
        /\ heap[g].Timestamp # heap[h].Timestamp
        /\ heap[g].Hash # heap[h].Hash

\* C5: NewBlock validates nothing: whatever predecessor reference and index
\* a call passed (empty, not hexadecimal, a real fingerprint; repeated or out
\* of sequence), the block holds the arguments as passed, with Nonce 0, from
\* its allocation on, and every call under way has its block.
C5_NoValidation ==
    /\ \A a \in Allocated :
          callArgs[a].ctor = "NewBlock" =>
              /\ heap[a].Index = callArgs[a].index
              /\ heap[a].Data = callArgs[a].data
              /\ heap[a].PrevHash = callArgs[a].prevHash
              /\ heap[a].Nonce = 0
    /\ \A p \in Procs : pc[p] = "hash" => blk[p] \in Allocated \ returned

\* C5 witness: the chaining scenario, a standard block built on a returned
\* genesis block's fingerprint, beside a call that passed the empty string.
C5_Witness ==
    \E g \in Genesis, b \in Standard :
        /\ callArgs[b].prevHash = heap[g].Hash
        /\ heap[b].PrevHash = heap[g].Hash
        /\ heap[g].Hash # <<>>
        /\ heap[b].Index = 1

\* C5 witness of the unvalidated inputs: an empty predecessor reference and
\* an index that repeats an earlier block's.
C5_WitnessUnchecked ==
    \E a, b \in Standard :
        /\ a # b
        /\ heap[a].PrevHash = <<>>
        /\ heap[a].Index = heap[b].Index

\* What a step may do to the blocks: allocate one more, or store the
\* fingerprint of the block of the one call that returns in this step.
OwnBlockOnly ==
    /\ Len(heap') >= Len(heap)
    /\ \A a \in Allocated :
          /\ a \in returned => heap'[a] = heap[a] /\ a \in returned'
          /\ heap'[a] # heap[a] =>
                \E p \in Procs :
                    /\ pc[p] = "hash" /\ blk[p] = a /\ pc'[p] = "idle"
                    /\ heap'[a] = [heap[a] EXCEPT !.Hash = CalculateHash(heap[a])]
          /\ heap'[a].Data = callArgs[a].data
    /\ \A p \in Procs :
          /\ pc[p] = "hash" /\ pc'[p] = "idle" =>
                /\ returned' = returned \cup {blk[p]}
                /\ heap'[blk[p]].Hash = CalculateHash(heap'[blk[p]])
          /\ callerData'[p] # callerData[p] => heap' = heap

\* C9: under every interleaving of the callers' steps, a step changes no
\* block but the one of the call that returns in it, a returned block never
\* changes again (whatever its caller then assigns to its own payload
\* variable, whatever sibling calls do), and it leaves its constructor with
\* Hash equal to CalculateHash().
C9_BlocksAreIndependent == [][OwnBlockOnly]_vars

\* C9 witness: a call that started first is still under way when a call that
\* started later has returned its block, and the caller of one of them has
\* since assigned another payload to its variable.
C9_Witness ==
    \E a \in returned, p \in Procs :
        /\ pc[p] = "hash"
        /\ blk[p] < a
        /\ heap[blk[p]].Hash = <<>>
        /\ heap[a].Hash = CalculateHash(heap[a])
        /\ \A q \in Procs : callerData[q] # heap[a].Data

\* Payloads json.Marshal rejects, differing in every other field.
FailingPayloads ==
    {SupplierData(inn, name, <<"R">>, r, details) :
        inn \in {<<"7">>, <<"8">>}, name \in {<<"A">>, <<>>},
        r \in {NaN, PosInf, NegInf}, details \in {<<>>, <<"d">>}}

IndexValues == {-1, 0, 1, 12}
TimestampValues == {-5, 3, 23}
PrevHashValues == {<<>>, <<"0">>, <<"1">>, <<"z">>}
NonceValues == {0, 10}
StringValues == {<<>>, <<"7">>, <<"8">>, <<"xFE">>, <<"xFF">>, <<"\"", "<">>}
RatingValues == {Finite(0), Finite(1), Finite(-5000), NaN, PosInf}

\* The blocks that differ from b in exactly one hashed field.
SingleFieldVariants(b) ==
    {[b EXCEPT !.Index = v] : v \in IndexValues \ {b.Index}}
    \cup {[b EXCEPT !.Timestamp = v] : v \in TimestampValues \ {b.Timestamp}}
    \cup {[b EXCEPT !.PrevHash = v] : v \in PrevHashValues \ {b.PrevHash}}
    \cup {[b EXCEPT !.Nonce = v] : v \in NonceValues \ {b.Nonce}}
    \cup {[b EXCEPT !.Data.INN = v] : v \in StringValues \ {b.Data.INN}}
    \cup {[b EXCEPT !.Data.CompanyName = v] :
             v \in StringValues \ {b.Data.CompanyName}}
    \cup {[b EXCEPT !.Data.Action = v] : v \in StringValues \ {b.Data.Action}}
    \cup {[b EXCEPT !.Data.RatingChange = v] :
             v \in RatingValues \ {b.Data.RatingChange}}
    \cup {[b EXCEPT !.Data.Details = v] : v \in StringValues \ {b.Data.Details}}

\* C2: for every block a constructor returned, a change of exactly one
\* hashed field, the others and the stored Hash kept, makes CalculateHash()
\* differ from the stored Hash.
C2_SingleChangeDetected ==
    \A a \in returned :
        \A v \in SingleFieldVariants(heap[a]) : CalculateHash(v) # heap[a].Hash

\* The blocks that differ from b in the fields around the two unseparated
\* boundaries, in one or several of them at once.
BoundaryVariants(b) ==
    {[b EXCEPT !.Index = i, !.Timestamp = t, !.PrevHash = ph, !.Nonce = n] :
        i \in IndexValues, t \in TimestampValues,
        ph \in PrevHashValues, n \in NonceValues} \ {b}

\* C3: two blocks whose (Index, Timestamp, Data, PrevHash, Nonce) differ, in
\* one field or in several, have different text records and so different
\* fingerprints: any alteration of a returned block shows as a mismatch.
C3_AlterationDetected ==
    \A a \in returned :
        \A v \in BoundaryVariants(heap[a]) \cup {heap[x] : x \in returned} :
            Tuple(v) # Tuple(heap[a]) =>
                /\ Record(v) # Record(heap[a])
                /\ CalculateHash(v) # heap[a].Hash

(***************************************************************************)
(* CalculateHash on blocks with any field values: two blocks with the same *)
(* hashed fields, the first with any stored Hash, the second with the      *)
(* fingerprint stored.                                                     *)
(***************************************************************************)
DataValues ==
    {GenesisData, PayloadX, PayloadBad,
     [PayloadX EXCEPT !.RatingChange = Finite(1)],
     [PayloadX EXCEPT !.INN = <<"xFE">>],
     [PayloadX EXCEPT !.CompanyName = <<"\"", "<">>, !.RatingChange = PosInf]}

StoredHashValues == {<<>>, <<"z">>}

LiteralArgs(b) ==
    [ctor |-> "literal", data |-> b.Data, prevHash |-> b.PrevHash,
     index |-> b.Index, clock |-> b.Timestamp]

InitHash ==
    /\ \E i \in IndexValues, t \in TimestampValues, d \in DataValues,
          ph \in PrevHashValues, n \in NonceValues, h \in StoredHashValues :
          /\ heap = <<Block(i, t, d, ph, h, n),
                      Block(i, t, d, ph,
                            CalculateHash(Block(i, t, d, ph, h, n)), n)>>
          /\ callArgs = <<LiteralArgs(Block(i, t, d, ph, h, n)),
                          LiteralArgs(Block(i, t, d, ph, h, n))>>
    /\ returned = {1, 2}
    /\ pc = [p \in Procs |-> "idle"]
    /\ blk = [p \in Procs |-> 0]
    /\ callerData = [p \in Procs |-> PayloadX]
    /\ now \in ClockReadings
    /\ result = NoResult

NextHash ==
    \/ Tick
    \/ \E p \in Procs, a \in 1..MaxBlocks : CallCalculateHash(p, a)

SpecHash == InitHash /\ [][NextHash]_vars

\* C6: CalculateHash depends on the five hashed fields only: what a call
\* returned is what a call on any block with the same five fields returns,
\* whatever Hash that block stores and whatever the clock reads now.
C6_Deterministic ==
    /\ \A a, b \in Allocated :
          Tuple(heap[a]) = Tuple(heap[b]) =>
              CalculateHash(heap[a]) = CalculateHash(heap[b])
    /\ result.block # 0 =>
          \A b \in Allocated :
              Tuple(heap[b]) = Tuple(heap[result.block]) =>
                  CalculateHash(heap[b]) = result.hash

\* C6 witness: a call on the block with the fingerprint stored has returned,
\* and the other block has the same five fields and another stored Hash.
C6_Witness ==
    /\ result.block = 2
    /\ Tuple(heap[1]) = Tuple(heap[2])
    /\ heap[1].Hash # heap[2].Hash
    /\ heap[2].Hash = result.hash

HexCharacters ==
    {"0", "1", "2", "3", "4", "5", "6", "7", "8", "9",
     "a", "b", "c", "d", "e", "f"}

IsFingerprint(h) ==
    /\ Len(h) = 64
    /\ \A i \in 1..Len(h) : h[i] \in HexCharacters

\* C7: whatever the fields of a block, CalculateHash returns 64 characters,
\* each of 0-9a-f; so does every call made, and so is the Hash a block
\* stores once it is set from CalculateHash.
C7_FingerprintFormat ==
    /\ \A a \in Allocated : IsFingerprint(CalculateHash(heap[a]))
    /\ result.block # 0 => IsFingerprint(result.hash)
    /\ IsFingerprint(heap[2].Hash)

\* C7 witness: a call has returned on a block with a negative Index, a
\* negative Timestamp, an empty PrevHash and a payload that does not
\* serialize.
C7_Witness ==
    /\ result.block = 1
    /\ heap[1].Index < 0
    /\ heap[1].Timestamp < 0
    /\ heap[1].PrevHash = <<>>
    /\ MarshalFails(heap[1].Data)

\* The text between the timestamp and the predecessor reference of b's record.
DataSegment(b) ==
    SubSeq(Record(b),
           Len(Dec(b.Index)) + Len(Dec(b.Timestamp)) + 1,
           Len(Record(b)) - Len(b.PrevHash) - Len(Dec(b.Nonce)))

\* The JSON object of d up to the value of rating_change, and after it.
JsonHead(d) ==
    <<"{">>
    \o JsonKey(TagINN) \o JsonString(d.INN) \o <<",">>
    \o JsonKey(TagCompanyName) \o JsonString(d.CompanyName) \o <<",">>
    \o JsonKey(TagAction) \o JsonString(d.Action) \o <<",">>
    \o JsonKey(TagRatingChange)

JsonTail(d) == <<",">> \o JsonKey(TagDetails) \o JsonString(d.Details) \o <<"}">>

IsSuffix(t, s) ==
    Len(t) <= Len(s) /\ SubSeq(s, Len(s) - Len(t) + 1, Len(s)) = t

IsPrefix(t, s) == Len(t) <= Len(s) /\ SubSeq(s, 1, Len(t)) = t

\* C8: for every block the record hashed is Index in decimal, Timestamp in
\* decimal, the JSON object of Data with the keys inn, company_name, action,
\* rating_change, details in that order, PrevHash and Nonce in decimal, with
\* nothing between them, and the fingerprint is the hex of its digest.
C8_RecordLayout ==
    \A a \in Allocated :
        /\ IsPrefix(Dec(heap[a].Index) \o Dec(heap[a].Timestamp), Record(heap[a]))
        /\ IsSuffix(heap[a].PrevHash \o Dec(heap[a].Nonce), Record(heap[a]))
        /\ IsPrefix(JsonHead(heap[a].Data), DataSegment(heap[a]))
        /\ IsSuffix(JsonTail(heap[a].Data), DataSegment(heap[a]))
        /\ Len(DataSegment(heap[a]))
              > Len(JsonHead(heap[a].Data)) + Len(JsonTail(heap[a].Data))
        /\ CalculateHash(heap[a]) = HexEncode(Sha256(Bytes(Record(heap[a]))))

\* The stand-in digest separates the records of the model: two records that
\* differ have different fingerprints.
DigestCollisionFree ==
    \A i \in IndexValues, t \in TimestampValues, d \in DataValues,
       ph \in PrevHashValues, n \in NonceValues :
        Record(Block(i, t, d, ph, <<>>, n)) # Record(heap[1]) =>
            CalculateHash(Block(i, t, d, ph, <<>>, n)) # CalculateHash(heap[1])

====
